---------------------------- MODULE Spec2Model ----------------------------
(***************************************************************************)
(* A model of the spawner repository's idle-reclamation engine:            *)
(*                                                                         *)
(*   - the idle pod collector (spawner/src/idle_pod_collector.rs): one      *)
(*     reconciliation pass per managed pod, split at its two await points   *)
(*     (the status query and the delete call);                              *)
(*   - the resource naming of BackendId (src/types.rs);                     *)
(*   - the container agent (src/drone/agent/docker.rs): the event          *)
(*     classifier, is_running and get_port, run_container, and the         *)
(*     container_events and get_stats streams.                             *)
(*                                                                         *)
(* Machine integers keep their width.  TLC's integers are 32-bit signed,    *)
(* so an i32 is a TLC integer, a u32 is a record of two 16-bit limbs        *)
(* [hi, lo] and a u64 is a tuple of four 16-bit limbs, most significant     *)
(* first.                                                                   *)
(***************************************************************************)
EXTENDS Integers, Sequences, FiniteSets, TLC

VARIABLES
    \* ---- idle pod collector -------------------------------------------
    cleanup_frequency_seconds, \* SpawnerState field read by every pass (u32)
    overflow_checks,           \* build profile: TRUE panics on i32 overflow
    running,                   \* the controller's drainer future is alive
    managed,                   \* pods in the cluster's managed set
    seconds_inactive,          \* pod -> idle duration its workload reports (u32)
    pc,                        \* pod -> position of its pass in reconcile
    pass,                      \* pod -> locals and result of its latest pass
    \* ---- BackendId resource names -------------------------------------
    backend_id,                \* Option<BackendId>: the id a name is made from
    resource_name,             \* Option<String>: a name given or made
    parsed,                    \* Option<Option<BackendId>>: from_resource_name's answer
    renamed,                   \* Option<String>: to_resource_name of the parsed id
    \* ---- container event classifier -----------------------------------
    event_message,             \* the raw EventMessage at hand
    container_event,           \* Option<Option<ContainerEvent>>: the classifier's answer
    \* ---- container inspection (is_running, get_port) -------------------
    inspect_response,          \* the runtime's answer to inspect_container
    is_running_ret,            \* Option<Result<(bool, Option<i64>)>>
    get_port_ret,              \* Option<Option<u16>>
    \* ---- run_container -----------------------------------------------
    containers,                \* the runtime's containers: name -> state
    docker_calls,              \* the calls the agent has issued, in order
    run_call,                  \* the run_container call in progress or last made
    \* ---- container_events stream -------------------------------------
    raw_events,                \* items the runtime's event stream has yielded
    delivered_events,          \* items the agent's stream has yielded
    events_ended,              \* the agent's stream has ended
    \* ---- get_stats stream --------------------------------------------
    stats_now,                 \* seconds since the stream was opened
    stats_pending,             \* snapshots emitted and not yet taken, oldest first
    stats_delivered,           \* <<emitted at, delivered at>> of each delivery
    throttle_delay,            \* instant until which the throttle sleeps
    throttle_has_delayed       \* the throttle's sleep for the next item is over

ctlVars == <<cleanup_frequency_seconds, overflow_checks, running, managed,
             seconds_inactive, pc, pass>>
nameVars == <<backend_id, resource_name, parsed, renamed>>
evVars == <<event_message, container_event>>
inspectVars == <<inspect_response, is_running_ret, get_port_ret>>
runVars == <<containers, docker_calls, run_call>>
streamVars == <<raw_events, delivered_events, events_ended>>
statsVars == <<stats_now, stats_pending, stats_delivered, throttle_delay,
               throttle_has_delayed>>
agentVars == <<inspectVars, runVars, streamVars, statsVars>>

vars == <<ctlVars, nameVars, evVars, agentVars>>

---------------------------------------------------------------------------
(* Option<T> *)
None == <<>>
Some(x) == <<x>>
IsSome(o) == o # None
Unwrap(o) == o[1]

---------------------------------------------------------------------------
(* Fixed-width integers *)
Limb == 2^16

MaxI32 == (Limb \div 2 - 1) * Limb + (Limb - 1)
MinI32 == -MaxI32 - 1

\* a u32 from a natural number below 2^31
U32(n) == [hi |-> n \div Limb, lo |-> n % Limb]
U32Max == [hi |-> Limb - 1, lo |-> Limb - 1]
U32LessEq(a, b) == a.hi < b.hi \/ (a.hi = b.hi /\ a.lo <= b.lo)
U32Less(a, b) == a.hi < b.hi \/ (a.hi = b.hi /\ a.lo < b.lo)
\* the value of a u32 fits an i32
U32FitsI32(a) == a.hi < Limb \div 2

\* `x as i32` for a u32 x: the same 32 bits read as two's complement
AsI32(x) ==
    IF x.hi >= Limb \div 2
    THEN (x.hi - Limb) * Limb + x.lo
    ELSE x.hi * Limb + x.lo

\* whether a - b leaves the range of i32
SubOverflows(a, b) ==
    \/ b < 0 /\ a > MaxI32 + b
    \/ b > 0 /\ a < MinI32 + b

\* i32::wrapping_sub: a - b modulo 2^32, computed without leaving i32
WrappingSub(a, b) ==
    IF ~SubOverflows(a, b) THEN a - b
    ELSE IF b < 0 THEN (a - MaxI32 - 1) + (MinI32 - b)
    ELSE (a - MinI32) + (MaxI32 - b) + 1

\* `i as u64` for an i32 i: sign extension to 64 bits
AsU64(i) ==
    IF i >= 0
    THEN <<0, 0, i \div Limb, i % Limb>>
    ELSE <<Limb - 1, Limb - 1,
           ((i - MinI32) \div Limb) + Limb \div 2, (i - MinI32) % Limb>>

\* a u64 from a natural number below 2^31
U64(n) == <<0, 0, n \div Limb, n % Limb>>

\* Duration::from_secs: a Duration is its whole seconds (u64)
DurationFromSecs(secs) == secs

---------------------------------------------------------------------------
(* Idle pod collector *)

\* pods are numbered; the model runs NumPods of them concurrently
NumPods == 2
Pods == 1..NumPods

\* configurations and reported idle durations the model draws from
CleanupValues == {U32(600), U32(MaxI32), [hi |-> Limb \div 2, lo |-> 0]}
IdleValues == {U32(0), U32(550), U32(600), U32(610), U32Max}

BackoffSeconds == 360

NoPass == [read |-> None, seconds_until_expired |-> None, deletes |-> 0,
           result |-> "NotRun", requeue_after |-> None]

\* mutant of ErrorPolicy: the error path retries at once, with no backoff
ErrorPolicyNoBackoff(error) ==
    [requeue_after |-> Some(DurationFromSecs(U64(0)))]

\* error_policy: every error re-arms after the fixed backoff
ErrorPolicy(error) ==
    [requeue_after |-> Some(DurationFromSecs(U64(BackoffSeconds)))]

\* line 62: cleanup_frequency_seconds as i32 - seconds_inactive as i32
SecondsUntilExpired(cleanup, inactive) ==
    WrappingSub(AsI32(cleanup), AsI32(inactive))

\* line 62 panics in a build with overflow checks when the difference
\* leaves i32
SubtractionPanics(cleanup, inactive) ==
    overflow_checks /\ SubOverflows(AsI32(cleanup), AsI32(inactive))

\* mutant of Expired: the test of line 64 written ttl < 0
ExpiredStrict(ttl) == ttl < 0

\* line 64: the pass deletes the pod
Expired(ttl) == ttl <= 0

\* lines 70-72: the success path's ReconcilerAction
RequeueAction(ttl) == [requeue_after |-> Some(DurationFromSecs(AsU64(ttl)))]

CtlInit ==
    /\ cleanup_frequency_seconds \in CleanupValues
    /\ overflow_checks \in BOOLEAN
    /\ running = TRUE
    /\ managed = Pods
    /\ seconds_inactive \in [Pods -> IdleValues]
    /\ pc = [p \in Pods |-> "idle"]
    /\ pass = [p \in Pods |-> NoPass]

\* the controller runtime hands a managed pod to reconcile (lines 50-58):
\* the pass starts and issues the status query
Reconcile(p) ==
    /\ running
    /\ p \in managed
    /\ pc[p] = "idle"
    /\ pc' = [pc EXCEPT ![p] = "get_pod_state"]
    /\ pass' = [pass EXCEPT ![p] = [NoPass EXCEPT !.result = "Running"]]
    /\ UNCHANGED <<nameVars, evVars, agentVars, cleanup_frequency_seconds,
                   overflow_checks, running, managed,
                   seconds_inactive>>

\* get_pod_state fails (lines 58-60); the runtime applies error_policy
GetPodStateErr(p) ==
    /\ running
    /\ pc[p] = "get_pod_state"
    /\ pc' = [pc EXCEPT ![p] = "idle"]
    /\ pass' = [pass EXCEPT
                  ![p].result = "ErrorCheckingStatus",
                  ![p].requeue_after =
                      ErrorPolicy("ErrorCheckingStatus").requeue_after]
    /\ UNCHANGED <<nameVars, evVars, agentVars, cleanup_frequency_seconds,
                   overflow_checks, running, managed,
                   seconds_inactive>>

\* get_pod_state answers (lines 58-64): the pass computes
\* seconds_until_expired, then either issues the delete call (line 65) or
\* returns the success action (lines 70-72)
GetPodStateOk(p) ==
    /\ running
    /\ pc[p] = "get_pod_state"
    /\ p \in managed
    /\ LET inactive == seconds_inactive[p]
           ttl == SecondsUntilExpired(cleanup_frequency_seconds, inactive)
       IN  IF SubtractionPanics(cleanup_frequency_seconds, inactive)
           THEN /\ running' = FALSE
                /\ pc' = [pc EXCEPT ![p] = "panicked"]
                /\ pass' = [pass EXCEPT ![p].read = Some(inactive),
                                        ![p].result = "Panic"]
           ELSE IF Expired(ttl)
           THEN /\ running' = running
                /\ pc' = [pc EXCEPT ![p] = "delete_pod"]
                /\ pass' = [pass EXCEPT
                              ![p].read = Some(inactive),
                              ![p].seconds_until_expired = Some(ttl),
                              ![p].deletes = @ + 1]
           ELSE /\ running' = running
                /\ pc' = [pc EXCEPT ![p] = "idle"]
                /\ pass' = [pass EXCEPT
                              ![p].read = Some(inactive),
                              ![p].seconds_until_expired = Some(ttl),
                              ![p].result = "Ok",
                              ![p].requeue_after =
                                  RequeueAction(ttl).requeue_after]
    /\ UNCHANGED <<nameVars, evVars, agentVars, cleanup_frequency_seconds,
                   overflow_checks, managed,
                   seconds_inactive>>

\* a delete that goes through only if the workload is still expired when the
\* call is made
DeletePodOkRequeries(p) ==
    /\ running
    /\ pc[p] = "delete_pod"
    /\ p \in managed
    /\ U32LessEq(cleanup_frequency_seconds, seconds_inactive[p])
    /\ managed' = managed \ {p}
    /\ pc' = [pc EXCEPT ![p] = "idle"]
    /\ pass' = [pass EXCEPT
                  ![p].result = "Ok",
                  ![p].requeue_after =
                      RequeueAction(Unwrap(pass[p].seconds_until_expired))
                          .requeue_after]
    /\ UNCHANGED <<nameVars, evVars, agentVars, cleanup_frequency_seconds,
                   overflow_checks, running,
                   seconds_inactive>>

\* delete_pod succeeds (lines 65-72): the pod leaves the managed set and the
\* pass returns the success action
DeletePodOk(p) ==
    /\ running
    /\ pc[p] = "delete_pod"
    /\ p \in managed
    /\ managed' = managed \ {p}
    /\ pc' = [pc EXCEPT ![p] = "idle"]
    /\ pass' = [pass EXCEPT
                  ![p].result = "Ok",
                  ![p].requeue_after =
                      RequeueAction(Unwrap(pass[p].seconds_until_expired))
                          .requeue_after]
    /\ UNCHANGED <<nameVars, evVars, agentVars, cleanup_frequency_seconds,
                   overflow_checks, running,
                   seconds_inactive>>

\* mutant of DeletePodErr: the failed delete is re-armed from the computed
\* ttl instead of the backoff
DeletePodErrRequeuesTtl(p) ==
    /\ running
    /\ pc[p] = "delete_pod"
    /\ pc' = [pc EXCEPT ![p] = "idle"]
    /\ pass' = [pass EXCEPT
                  ![p].result = "ErrorDeletingPod",
                  ![p].requeue_after =
                      Some(DurationFromSecs(
                          AsU64(Unwrap(pass[p].seconds_until_expired))))]
    /\ UNCHANGED <<nameVars, evVars, agentVars, cleanup_frequency_seconds,
                   overflow_checks, running, managed,
                   seconds_inactive>>

\* mutant of DeletePodErr: the failed delete ends the controller's stream
DeletePodErrStops(p) ==
    /\ running
    /\ pc[p] = "delete_pod"
    /\ running' = FALSE
    /\ pc' = [pc EXCEPT ![p] = "idle"]
    /\ pass' = [pass EXCEPT
                  ![p].result = "ErrorDeletingPod",
                  ![p].requeue_after =
                      Some(DurationFromSecs(U64(360)))]
    /\ UNCHANGED <<nameVars, evVars, agentVars, cleanup_frequency_seconds,
                   overflow_checks, managed, seconds_inactive>>

\* delete_pod fails (lines 65-67); the runtime applies error_policy
DeletePodErr(p) ==
    /\ running
    /\ pc[p] = "delete_pod"
    /\ pc' = [pc EXCEPT ![p] = "idle"]
    /\ pass' = [pass EXCEPT
                  ![p].result = "ErrorDeletingPod",
                  ![p].requeue_after =
                      ErrorPolicy("ErrorDeletingPod").requeue_after]
    /\ UNCHANGED <<nameVars, evVars, agentVars, cleanup_frequency_seconds,
                   overflow_checks, running, managed,
                   seconds_inactive>>

\* the workload stays idle: its idle duration grows
WorkloadIdles(p, v) ==
    /\ p \in managed
    /\ U32Less(seconds_inactive[p], v)
    /\ seconds_inactive' = [seconds_inactive EXCEPT ![p] = v]
    /\ UNCHANGED <<nameVars, evVars, agentVars, cleanup_frequency_seconds,
                   overflow_checks, running, managed, pc,
                   pass>>

\* the workload serves activity: its idle duration starts again from zero
WorkloadActive(p) ==
    /\ p \in managed
    /\ seconds_inactive[p] # U32(0)
    /\ seconds_inactive' = [seconds_inactive EXCEPT ![p] = U32(0)]
    /\ UNCHANGED <<nameVars, evVars, agentVars, cleanup_frequency_seconds,
                   overflow_checks, running, managed, pc,
                   pass>>

CtlNext ==
    \/ \E p \in Pods : Reconcile(p)
    \/ \E p \in Pods : GetPodStateErr(p)
    \/ \E p \in Pods : GetPodStateOk(p)
    \/ \E p \in Pods : DeletePodOk(p)
    \/ \E p \in Pods : DeletePodErr(p)
    \/ \E p \in Pods, v \in IdleValues : WorkloadIdles(p, v)
    \/ \E p \in Pods : WorkloadActive(p)

\* the naming and classifier variables play no part in the collector
NameParked ==
    /\ backend_id = None /\ resource_name = None
    /\ parsed = None /\ renamed = None
EvParked == event_message = None /\ container_event = None

\* nor do the variables of the container agent's other operations
InspectParked ==
    /\ inspect_response = None
    /\ is_running_ret = None /\ get_port_ret = None
RunParked ==
    /\ containers = None /\ docker_calls = None /\ run_call = None
StreamParked ==
    /\ raw_events = None /\ delivered_events = None /\ events_ended = FALSE
StatsParked ==
    /\ stats_now = 0 /\ stats_pending = None /\ stats_delivered = None
    /\ throttle_delay = 0 /\ throttle_has_delayed = FALSE
AgentParked ==
    InspectParked /\ RunParked /\ StreamParked /\ StatsParked

Init == CtlInit /\ NameParked /\ EvParked /\ AgentParked
Next == CtlNext
Spec == Init /\ [][Next]_vars

---------------------------------------------------------------------------
(* The collector over time, for a workload that stays idle: the status     *)
(* query keeps answering, deletes go through, and the time that passes is  *)
(* the time the runtime waits before the pass it was asked to requeue.     *)

\* an idle duration after secs more seconds without activity (secs a u64);
\* the duration is a u32 and stays at its largest value once it gets there
IdleAfter(inactive, secs) ==
    LET lo == inactive.lo + secs[4]
        hi == inactive.hi + secs[3] + lo \div Limb
    IN  IF secs[1] # 0 \/ secs[2] # 0 \/ hi >= Limb THEN U32Max
        ELSE [hi |-> hi, lo |-> lo % Limb]

\* the first pass of a pod, run when the controller first sees it
FirstPass(p) ==
    /\ pass[p].result = "NotRun"
    /\ Reconcile(p)

\* the requeue delay a pass asked for (lines 70-72) elapses while the
\* workload stays idle, and the runtime runs the next pass
RequeueElapses(p) ==
    /\ running
    /\ p \in managed
    /\ pc[p] = "idle"
    /\ pass[p].result = "Ok"
    /\ IsSome(pass[p].requeue_after)
    /\ seconds_inactive' =
           [seconds_inactive EXCEPT
               ![p] = IdleAfter(@, Unwrap(pass[p].requeue_after))]
    /\ pc' = [pc EXCEPT ![p] = "get_pod_state"]
    /\ pass' = [pass EXCEPT ![p] = [NoPass EXCEPT !.result = "Running"]]
    /\ UNCHANGED <<nameVars, evVars, agentVars, cleanup_frequency_seconds,
                   overflow_checks, running, managed>>

LiveNext ==
    \/ \E p \in Pods : FirstPass(p)
    \/ \E p \in Pods : RequeueElapses(p)
    \/ \E p \in Pods : GetPodStateOk(p)
    \/ \E p \in Pods : DeletePodOk(p)

\* the runtime is fair to every pod: a pass that is due runs, a call that
\* was issued returns
LiveSpec ==
    /\ Init
    /\ [][LiveNext]_vars
    /\ \A p \in Pods :
          /\ WF_vars(FirstPass(p))
          /\ WF_vars(RequeueElapses(p))
          /\ WF_vars(GetPodStateOk(p))
          /\ WF_vars(DeletePodOk(p))

---------------------------------------------------------------------------
(* BackendId resource names (src/types.rs).  A String is the sequence of *)
(* its characters.                                                        *)

RESOURCE_PREFIX == <<"s", "p", "a", "w", "n", "e", "r", "-">>

\* the tuple struct BackendId(String)
BackendId(id) == [id |-> id]

\* str::starts_with
StartsWith(str, prefix) ==
    /\ Len(str) >= Len(prefix)
    /\ SubSeq(str, 1, Len(prefix)) = prefix

\* str::strip_prefix: the rest after one leading occurrence of the prefix
StripPrefix(str, prefix) ==
    IF StartsWith(str, prefix)
    THEN Some(SubSeq(str, Len(prefix) + 1, Len(str)))
    ELSE None

\* Option::map(|d| BackendId(d.to_string()))
MapBackendId(o) == IF IsSome(o) THEN Some(BackendId(Unwrap(o))) ELSE None

\* BackendId::to_resource_name: format!("{}{}", RESOURCE_PREFIX, self.0)
to_resource_name(self) == RESOURCE_PREFIX \o self.id

\* str::trim_start_matches: every leading occurrence of the prefix removed
RECURSIVE TrimStartMatches(_, _)
TrimStartMatches(str, prefix) ==
    IF StartsWith(str, prefix)
    THEN TrimStartMatches(SubSeq(str, Len(prefix) + 1, Len(str)), prefix)
    ELSE str

\* mutant of from_resource_name: trim_start_matches in place of strip_prefix
FromResourceNameTrimsAll(resource_name_) ==
    IF StartsWith(resource_name_, RESOURCE_PREFIX)
    THEN Some(BackendId(TrimStartMatches(resource_name_, RESOURCE_PREFIX)))
    ELSE None

\* the first position at which the prefix occurs in str, 0 when none
FirstOccurrence(str, prefix) ==
    LET at == {i \in 1..(Len(str) - Len(prefix) + 1) :
                  SubSeq(str, i, i + Len(prefix) - 1) = prefix}
    IN  IF at = {} THEN 0 ELSE CHOOSE i \in at : \A j \in at : i <= j

\* mutant of from_resource_name: the prefix is looked for anywhere in the
\* name (split_once) rather than at its start
FromResourceNameSplits(resource_name_) ==
    LET i == FirstOccurrence(resource_name_, RESOURCE_PREFIX)
    IN  IF i = 0 THEN None
        ELSE Some(BackendId(SubSeq(resource_name_,
                                   i + Len(RESOURCE_PREFIX),
                                   Len(resource_name_))))

\* BackendId::from_resource_name
from_resource_name(resource_name_) ==
    MapBackendId(StripPrefix(resource_name_, RESOURCE_PREFIX))

\* the strings the model draws ids and names from: up to MaxAtoms pieces,
\* among them the prefix itself, so that ids and names start with it,
\* contain it, repeat it or miss it by one character
MaxAtoms == 2
Atoms == {RESOURCE_PREFIX,
          <<"s", "p", "a", "w", "n", "e", "r">>,
          <<"S", "p", "a", "w", "n", "e", "r", "-">>,
          <<"n", "o", "t", "-", "p", "r", "e", "f", "i", "x", "e", "d">>,
          <<"x">>, <<"-">>, <<"s">>}

RECURSIVE Words(_)
Words(n) ==
    IF n = 0 THEN {<<>>}
    ELSE Words(n - 1) \cup {w \o a : w \in Words(n - 1), a \in Atoms}

Strings == Words(MaxAtoms)

\* the collector's variables play no part in naming and classification
CtlParked ==
    /\ cleanup_frequency_seconds = U32(0)
    /\ overflow_checks = FALSE
    /\ running = FALSE
    /\ managed = {}
    /\ seconds_inactive = [p \in Pods |-> U32(0)]
    /\ pc = [p \in Pods |-> "idle"]
    /\ pass = [p \in Pods |-> NoPass]

\* either an id is given (BackendId::new), or a resource name read from the
\* cluster
NameInit ==
    /\ \/ /\ backend_id \in {Some(BackendId(w)) : w \in Strings}
          /\ resource_name = None
       \/ /\ backend_id = None
          /\ resource_name \in {Some(w) : w \in Strings}
    /\ parsed = None
    /\ renamed = None
    /\ CtlParked /\ EvParked /\ AgentParked

\* the resource name of the given id
ToResourceName ==
    /\ IsSome(backend_id)
    /\ resource_name = None
    /\ resource_name' = Some(to_resource_name(Unwrap(backend_id)))
    /\ UNCHANGED <<ctlVars, evVars, agentVars, backend_id, parsed, renamed>>

\* the name at hand is parsed back
FromResourceName ==
    /\ IsSome(resource_name)
    /\ parsed = None
    /\ parsed' = Some(from_resource_name(Unwrap(resource_name)))
    /\ UNCHANGED <<ctlVars, evVars, agentVars, backend_id, resource_name, renamed>>

\* the resource name of the id that parsing returned
ToResourceNameOfParsed ==
    /\ IsSome(parsed)
    /\ IsSome(Unwrap(parsed))
    /\ renamed = None
    /\ renamed' = Some(to_resource_name(Unwrap(Unwrap(parsed))))
    /\ UNCHANGED <<ctlVars, evVars, agentVars, backend_id, resource_name, parsed>>

NameNext ==
    \/ ToResourceName
    \/ FromResourceName
    \/ ToResourceNameOfParsed

NameSpec == NameInit /\ [][NameNext]_vars

---------------------------------------------------------------------------
(* Container event classifier (src/drone/agent/docker.rs) *)

\* the 24 action strings of the match, lines 72-95
Vocabulary ==
    {"attach", "commit", "copy", "create", "destroy", "detach", "die",
     "exec_create", "exec_detach", "exec_die", "exec_start", "export",
     "health_status", "kill", "oom", "pause", "rename", "resize",
     "restart", "start", "stop", "top", "unpause", "update"}

\* the match of lines 71-100: Some(kind), or None for the `_` arm
ContainerEventType(action) ==
    CASE action = "attach" -> Some("Attach")
      [] action = "commit" -> Some("Commit")
      [] action = "copy" -> Some("Copy")
      [] action = "create" -> Some("Create")
      [] action = "destroy" -> Some("Destroy")
      [] action = "detach" -> Some("Detach")
      [] action = "die" -> Some("Die")
      [] action = "exec_create" -> Some("ExecCreate")
      [] action = "exec_detach" -> Some("ExecDetach")
      [] action = "exec_die" -> Some("ExecDie")
      [] action = "exec_start" -> Some("ExecStart")
      [] action = "export" -> Some("Export")
      [] action = "health_status" -> Some("HealthStatus")
      [] action = "kill" -> Some("Kill")
      [] action = "oom" -> Some("Oom")
      [] action = "pause" -> Some("Pause")
      [] action = "rename" -> Some("Rename")
      [] action = "resize" -> Some("Resize")
      [] action = "restart" -> Some("Restart")
      [] action = "start" -> Some("Start")
      [] action = "stop" -> Some("Stop")
      [] action = "top" -> Some("Top")
      [] action = "unpause" -> Some("Unpause")
      [] action = "update" -> Some("Update")
      [] OTHER -> None

\* the struct ContainerEvent { event, name }
ContainerEvent(event, name) == [event |-> event, name |-> name]

\* line 69: actor.attributes.as_ref()?.get("name")?.to_string()
ActorName(actor) ==
    IF actor.attributes = None THEN None
    ELSE IF "name" \notin DOMAIN Unwrap(actor.attributes) THEN None
    ELSE Some(Unwrap(actor.attributes)["name"])

\* mutant of from_event_message: an actor without a name attribute is
\* named by its id
FromEventMessageIdFallback(event) ==
    IF event.action = None \/ event.actor = None THEN None
    ELSE LET actor == Unwrap(event.actor)
             name == IF IsSome(ActorName(actor)) THEN ActorName(actor)
                     ELSE actor.id
             kind == ContainerEventType(Unwrap(event.action))
         IN  IF name = None \/ kind = None THEN None
             ELSE Some(ContainerEvent(Unwrap(kind), Unwrap(name)))

\* a classifier that falls back to a default kind for an unknown action
FromEventMessageDefaultKind(event) ==
    IF event.action = None \/ event.actor = None THEN None
    ELSE LET name == ActorName(Unwrap(event.actor))
             kind == ContainerEventType(Unwrap(event.action))
         IN  IF name = None THEN None
             ELSE IF kind = None
                  THEN Some(ContainerEvent("Update", Unwrap(name)))
                  ELSE Some(ContainerEvent(Unwrap(kind), Unwrap(name)))

\* ContainerEvent::from_event_message, lines 66-103
from_event_message(event) ==
    IF event.action = None THEN None
    ELSE IF event.actor = None THEN None
    ELSE LET action == Unwrap(event.action)
             name == ActorName(Unwrap(event.actor))
         IN  IF name = None THEN None
             ELSE LET kind == ContainerEventType(action)
                  IN  IF kind = None THEN None
                      ELSE Some(ContainerEvent(Unwrap(kind), Unwrap(name)))

\* the raw events the model draws from
ActionStrings == Vocabulary \cup {"frobnicate", "Start", ""}
AttrKeys == {"name", "image"}
AttrValues == {"web", "db"}
AttrMaps == UNION {[K -> AttrValues] : K \in SUBSET AttrKeys}
ActorIds == {None, Some("c0ffee")}
Actors ==
    {None} \cup
    {Some([id |-> i, attributes |-> a]) :
        i \in ActorIds, a \in {None} \cup {Some(m) : m \in AttrMaps}}
EventMessages ==
    [action : {None} \cup {Some(a) : a \in ActionStrings}, actor : Actors]

EvInit ==
    /\ event_message \in EventMessages
    /\ container_event = None
    /\ CtlParked /\ NameParked /\ AgentParked

\* the classifier is applied to the raw event
FromEventMessage ==
    /\ container_event = None
    /\ container_event' = Some(from_event_message(event_message))
    /\ UNCHANGED <<ctlVars, nameVars, agentVars, event_message>>

EvNext == FromEventMessage

EventSpec == EvInit /\ [][EvNext]_vars

---------------------------------------------------------------------------
(* Container inspection (src/drone/agent/docker.rs): is_running and        *)
(* get_port, each a function of the runtime's answer to inspect_container. *)
(* A Result is [ok |-> TRUE, value |-> v] or [ok |-> FALSE, error |-> e].  *)

Ok(v) == [ok |-> TRUE, value |-> v]
Err(e) == [ok |-> FALSE, error |-> e]

CONTAINER_PORT == 8080

\* the largest u16
U16Max == Limb - 1

DigitChars == <<"0", "1", "2", "3", "4", "5", "6", "7", "8", "9">>
IsDigit(c) == \E i \in DOMAIN DigitChars : DigitChars[i] = c
DigitOf(c) == (CHOOSE i \in DOMAIN DigitChars : DigitChars[i] = c) - 1

\* the decimal digits of a natural number, as format!("{}", n) writes them
RECURSIVE Decimal(_)
Decimal(n) ==
    IF n < 10 THEN <<DigitChars[n + 1]>>
    ELSE Decimal(n \div 10) \o <<DigitChars[(n % 10) + 1]>>

\* format!("{}/tcp", port), line 243
PortKey(port) == Decimal(port) \o <<"/", "t", "c", "p">>

\* the digits of a u16 read left to right; a character that is no digit, or
\* a value that leaves the u16, is an error
RECURSIVE ParseDigits(_, _)
ParseDigits(digits, acc) ==
    IF digits = <<>> THEN Some(acc)
    ELSE IF ~IsDigit(Head(digits)) THEN None
    ELSE LET next == acc * 10 + DigitOf(Head(digits))
         IN  IF next > U16Max THEN None
             ELSE ParseDigits(Tail(digits), next)

\* str::parse::<u16>().ok(), line 248: an optional "+", then one or more
\* decimal digits, of value at most 65535
ParseU16(s) ==
    IF s = <<>> THEN None
    ELSE IF Head(s) \in {"+", "-"} /\ Tail(s) = <<>> THEN None
    ELSE IF Head(s) = "+" THEN ParseDigits(Tail(s), 0)
    ELSE ParseDigits(s, 0)

\* an is_running that reports the exit code the state carries, running or not
IsRunningKeepsExitCode(response) ==
    IF ~response.ok
    THEN IF /\ response.error.kind = "DockerResponseServerError"
            /\ response.error.status_code = 404
         THEN Ok(<<FALSE, None>>)
         ELSE Err(response.error)
    ELSE LET container == response.value
         IN  IF container.state = None
             THEN Err("No state found for container.")
             ELSE LET state == Unwrap(container.state)
                  IN  IF state.running = None
                      THEN Err("State found but no running field for container.")
                      ELSE Ok(<<Unwrap(state.running), state.exit_code>>)

\* is_running, lines 208-228, given the answer of inspect_container
is_running(response) ==
    IF ~response.ok
    THEN IF /\ response.error.kind = "DockerResponseServerError"
            /\ response.error.status_code = 404
         THEN Ok(<<FALSE, None>>)
         ELSE Err(response.error)
    ELSE LET container == response.value
         IN  IF container.state = None
             THEN Err("No state found for container.")
             ELSE LET state == Unwrap(container.state)
                  IN  IF state.running = None
                      THEN Err("State found but no running field for container.")
                      ELSE LET running_ == Unwrap(state.running)
                               exit_code == IF running_ THEN None
                                            ELSE state.exit_code
                           IN  Ok(<<running_, exit_code>>)

\* a get_port that reads the last binding of the list
GetPortLastBinding(response) ==
    IF ~response.ok THEN None
    ELSE LET inspect == response.value
         IN  IF inspect.network_settings = None THEN None
             ELSE LET settings == Unwrap(inspect.network_settings)
                  IN  IF settings.ports = None THEN None
                      ELSE LET ports == Unwrap(settings.ports)
                               key == PortKey(CONTAINER_PORT)
                           IN  IF key \notin DOMAIN ports THEN None
                               ELSE IF ports[key] = None THEN None
                               ELSE LET bindings == Unwrap(ports[key])
                                    IN  IF bindings = <<>> THEN None
                                        ELSE LET b == bindings[Len(bindings)]
                                             IN  IF b.host_port = None
                                                 THEN None
                                                 ELSE ParseU16(
                                                      Unwrap(b.host_port))

\* get_port, lines 230-249, given the answer of inspect_container
get_port(response) ==
    IF ~response.ok THEN None
    ELSE LET inspect == response.value
         IN  IF inspect.network_settings = None THEN None
             ELSE LET settings == Unwrap(inspect.network_settings)
                  IN  IF settings.ports = None THEN None
                      ELSE LET ports == Unwrap(settings.ports)
                               key == PortKey(CONTAINER_PORT)
                           IN  IF key \notin DOMAIN ports THEN None
                               ELSE IF ports[key] = None THEN None
                               ELSE LET bindings == Unwrap(ports[key])
                                    IN  IF bindings = <<>> THEN None
                                        ELSE LET b == Head(bindings)
                                             IN  IF b.host_port = None
                                                 THEN None
                                                 ELSE ParseU16(
                                                      Unwrap(b.host_port))

\* the answers of inspect_container the model draws from
InspectErrors ==
    {[kind |-> "DockerResponseServerError", status_code |-> c] :
        c \in {404, 409, 500}}
    \cup {[kind |-> "IOError", status_code |-> 0]}
ExitCodes == {None, Some(0), Some(137)}
ContainerStates ==
    {None} \cup
    {Some([running |-> r, exit_code |-> x]) :
        r \in {None, Some(TRUE), Some(FALSE)}, x \in ExitCodes}
HostPorts ==
    { <<"8", "0", "8", "0">>, <<"4", "9", "1", "5", "3">>, <<"0">>,
      <<"0", "8", "0">>, <<"6", "5", "5", "3", "5">>,
      <<"6", "5", "5", "3", "6">>, <<"7", "0", "0", "0", "0">>,
      <<"+", "8", "0">>, <<"-", "1">>, <<"8", "0", "a">>,
      <<"a", "b", "c">>, <<"+">>, <<>> }
PortBinding(host_port) ==
    [host_ip |-> Some("0.0.0.0"), host_port |-> host_port]
FirstBindings ==
    {PortBinding(None)} \cup {PortBinding(Some(s)) : s \in HostPorts}
OtherBinding == PortBinding(Some(<<"5", "3">>))
BindingLists ==
    {<<>>} \cup {<<b>> : b \in FirstBindings}
           \cup {<<b, OtherBinding>> : b \in FirstBindings}
UdpKey == Decimal(CONTAINER_PORT) \o <<"/", "u", "d", "p">>
PortMaps ==
    UNION {[K -> {None} \cup {Some(l) : l \in BindingLists}] :
              K \in {{}, {PortKey(CONTAINER_PORT)}}}
    \cup {[k \in {PortKey(CONTAINER_PORT), UdpKey} |->
              IF k = UdpKey THEN Some(<<OtherBinding>>) ELSE Some(l)] :
                 l \in BindingLists}
    \cup {[k \in {UdpKey} |-> Some(<<OtherBinding>>)]}
NetworkSettings ==
    {None, Some([ports |-> None])} \cup {Some([ports |-> Some(pm)]) :
                                            pm \in PortMaps}
InspectResponses ==
    {Err(e) : e \in InspectErrors} \cup
    {Ok([state |-> s, network_settings |-> n]) :
        s \in ContainerStates, n \in NetworkSettings}

InspectInit ==
    /\ inspect_response \in {Some(r) : r \in InspectResponses}
    /\ is_running_ret = None
    /\ get_port_ret = None
    /\ CtlParked /\ NameParked /\ EvParked
    /\ RunParked /\ StreamParked /\ StatsParked

\* is_running is called on a container that inspects as inspect_response
IsRunning ==
    /\ IsSome(inspect_response)
    /\ is_running_ret = None
    /\ is_running_ret' = Some(is_running(Unwrap(inspect_response)))
    /\ UNCHANGED <<ctlVars, nameVars, evVars, runVars, streamVars, statsVars,
                   inspect_response, get_port_ret>>

\* get_port is called on a container that inspects as inspect_response
GetPort ==
    /\ IsSome(inspect_response)
    /\ get_port_ret = None
    /\ get_port_ret' = Some(get_port(Unwrap(inspect_response)))
    /\ UNCHANGED <<ctlVars, nameVars, evVars, runVars, streamVars, statsVars,
                   inspect_response, is_running_ret>>

InspectNext == IsRunning \/ GetPort

InspectSpec == InspectInit /\ [][InspectNext]_vars

---------------------------------------------------------------------------
(* run_container (src/drone/agent/docker.rs, lines 252-308): a create call *)
(* and then a start call to the runtime.  The runtime keeps one container  *)
(* per name and refuses to create a second one under a name in use.        *)
(* stop_container (lines 201-207) and pull_image (lines 183-199) are the   *)
(* agent's other calls that change or address the runtime; they may be     *)
(* made at any time, also while a run_container is between its two calls.  *)

MaxRunCalls == 2
MaxOtherCalls == 1
ContainerNames == {"web", "db"}
ExistingStates == {"created", "running", "exited"}

NameConflict == [kind |-> "DockerResponseServerError", status_code |-> 409]
ServerError == [kind |-> "DockerResponseServerError", status_code |-> 500]
NoSuchContainer ==
    [kind |-> "DockerResponseServerError", status_code |-> 404]
NotModified == [kind |-> "DockerResponseServerError", status_code |-> 304]

\* a call to the runtime, as issued; its result is filled in when it returns
DockerCall(op, name, n) ==
    [op |-> op, name |-> name, call |-> n, result |-> None]

\* the call at position i of the log has returned with result r
Returns(calls, i, r) == [calls EXCEPT ![i].result = Some(r)]

\* the position in the log of the call that run_container number n awaits
\* (a run_container awaits one call at a time)
Awaited(calls, n) ==
    CHOOSE i \in DOMAIN calls : calls[i].call = n /\ calls[i].result = None

\* the stop_container and pull_image calls made so far
OtherCalls(calls) ==
    {i \in DOMAIN calls : calls[i].op \in {"stop_container", "create_image"}}

RunInit ==
    /\ containers \in {Some(c) :
                          c \in [ContainerNames ->
                                    {"absent"} \cup ExistingStates]}
    /\ docker_calls = Some(<<>>)
    /\ run_call = Some([n |-> 0, pc |-> "idle", name |-> "", result |-> None])
    /\ CtlParked /\ NameParked /\ EvParked
    /\ InspectParked /\ StreamParked /\ StatsParked

\* run_container(name, ..) is called (lines 252-296): it builds the options
\* and issues create_container
RunContainer(name) ==
    /\ IsSome(run_call)
    /\ Unwrap(run_call).pc = "idle"
    /\ Unwrap(run_call).n < MaxRunCalls
    /\ LET n == Unwrap(run_call).n + 1
       IN  /\ run_call' = Some([n |-> n, pc |-> "create_container",
                                name |-> name, result |-> None])
           /\ docker_calls' =
                  Some(Append(Unwrap(docker_calls),
                              DockerCall("create_container", name, n)))
    /\ UNCHANGED <<ctlVars, nameVars, evVars, inspectVars, streamVars,
                   statsVars, containers>>

\* a run_container that goes on to start the container when the create call
\* is refused
CreateContainerErrIgnored(error) ==
    /\ IsSome(run_call)
    /\ Unwrap(run_call).pc = "create_container"
    /\ LET name == Unwrap(run_call).name
       IN  /\ error = NameConflict
              <=> Unwrap(containers)[name] \in ExistingStates
           /\ run_call' = Some([Unwrap(run_call) EXCEPT
                                    !.pc = "start_container"])
           /\ docker_calls' =
                  Some(Append(Returns(Unwrap(docker_calls),
                                      Awaited(Unwrap(docker_calls),
                                              Unwrap(run_call).n),
                                      Err(error)),
                              DockerCall("start_container", name,
                                         Unwrap(run_call).n)))
    /\ UNCHANGED <<ctlVars, nameVars, evVars, inspectVars, streamVars,
                   statsVars, containers>>

\* create_container succeeds (line 296-297): the runtime has a new container
\* under the name, and run_container issues start_container on it (line 304)
CreateContainerOk ==
    /\ IsSome(run_call)
    /\ Unwrap(run_call).pc = "create_container"
    /\ LET name == Unwrap(run_call).name
       IN  /\ Unwrap(containers)[name] = "absent"
           /\ containers' = Some([Unwrap(containers) EXCEPT
                                     ![name] = "created"])
           /\ run_call' = Some([Unwrap(run_call) EXCEPT
                                    !.pc = "start_container"])
           /\ docker_calls' =
                  Some(Append(Returns(Unwrap(docker_calls),
                                      Awaited(Unwrap(docker_calls),
                                              Unwrap(run_call).n),
                                      Ok(name)),
                              DockerCall("start_container", name,
                                         Unwrap(run_call).n)))
    /\ UNCHANGED <<ctlVars, nameVars, evVars, inspectVars, streamVars,
                   statsVars>>

\* create_container fails and the ? of line 296 returns the error: with a
\* name conflict exactly when the name is in use, with a server error
\* otherwise
CreateContainerErr(error) ==
    /\ IsSome(run_call)
    /\ Unwrap(run_call).pc = "create_container"
    /\ error = NameConflict
       <=> Unwrap(containers)[Unwrap(run_call).name] \in ExistingStates
    /\ run_call' = Some([Unwrap(run_call) EXCEPT
                             !.pc = "idle", !.result = Some(Err(error))])
    /\ docker_calls' =
           Some(Returns(Unwrap(docker_calls),
                        Awaited(Unwrap(docker_calls), Unwrap(run_call).n),
                        Err(error)))
    /\ UNCHANGED <<ctlVars, nameVars, evVars, inspectVars, streamVars,
                   statsVars, containers>>

\* start_container succeeds and run_container returns Ok(()) (lines 304-307)
StartContainerOk ==
    /\ IsSome(run_call)
    /\ Unwrap(run_call).pc = "start_container"
    /\ containers' = Some([Unwrap(containers) EXCEPT
                              ![Unwrap(run_call).name] = "running"])
    /\ run_call' = Some([Unwrap(run_call) EXCEPT
                             !.pc = "idle", !.result = Some(Ok("unit"))])
    /\ docker_calls' =
           Some(Returns(Unwrap(docker_calls),
                        Awaited(Unwrap(docker_calls), Unwrap(run_call).n),
                        Ok("unit")))
    /\ UNCHANGED <<ctlVars, nameVars, evVars, inspectVars, streamVars,
                   statsVars>>

\* start_container fails and the ? of line 304 returns the error
StartContainerErr ==
    /\ IsSome(run_call)
    /\ Unwrap(run_call).pc = "start_container"
    /\ run_call' = Some([Unwrap(run_call) EXCEPT
                             !.pc = "idle",
                             !.result = Some(Err(ServerError))])
    /\ docker_calls' =
           Some(Returns(Unwrap(docker_calls),
                        Awaited(Unwrap(docker_calls), Unwrap(run_call).n),
                        Err(ServerError)))
    /\ UNCHANGED <<ctlVars, nameVars, evVars, inspectVars, streamVars,
                   statsVars, containers>>

\* what the runtime answers to a stop of a container in the given state
StopResults(state) ==
    CASE state = "running" -> {Ok("unit"), Err(ServerError)}
      [] state = "absent" -> {Err(NoSuchContainer)}
      [] OTHER -> {Err(NotModified)}

\* stop_container(name) is called, lines 201-204: it issues one stop call
\* with t = 10 and awaits the answer
StopContainer(name) ==
    /\ IsSome(docker_calls)
    /\ Cardinality(OtherCalls(Unwrap(docker_calls))) < MaxOtherCalls
    /\ docker_calls' =
           Some(Append(Unwrap(docker_calls),
                       DockerCall("stop_container", name, 0)))
    /\ UNCHANGED <<ctlVars, nameVars, evVars, inspectVars, streamVars,
                   statsVars, containers, run_call>>

\* the runtime answers a stop call, lines 204-206: a running container that
\* it stops is exited and stop_container returns Ok(()); an error is
\* returned by the ?
StopContainerReturns(result) ==
    /\ IsSome(docker_calls)
    /\ \E i \in DOMAIN Unwrap(docker_calls) :
          LET call == Unwrap(docker_calls)[i]
          IN  /\ call.op = "stop_container"
              /\ call.result = None
              /\ result \in StopResults(Unwrap(containers)[call.name])
              /\ containers' =
                     IF result.ok
                     THEN Some([Unwrap(containers) EXCEPT
                                   ![call.name] = "exited"])
                     ELSE containers
              /\ docker_calls' = Some(Returns(Unwrap(docker_calls), i, result))
    /\ UNCHANGED <<ctlVars, nameVars, evVars, inspectVars, streamVars,
                   statsVars, run_call>>

\* pull_image(image, ..) is called, lines 183-194: it issues one
\* create_image call and awaits the first item of its progress stream
PullImage ==
    /\ IsSome(docker_calls)
    /\ Cardinality(OtherCalls(Unwrap(docker_calls))) < MaxOtherCalls
    /\ docker_calls' =
           Some(Append(Unwrap(docker_calls),
                       DockerCall("create_image", "image", 0)))
    /\ UNCHANGED <<ctlVars, nameVars, evVars, inspectVars, streamVars,
                   statsVars, containers, run_call>>

\* the progress stream of a create_image call yields an error item, which
\* the ? of line 195 returns, or ends, and pull_image returns Ok(()) (line
\* 198); an Ok item before that changes nothing and is awaited past
PullImageReturns(result) ==
    /\ IsSome(docker_calls)
    /\ \E i \in DOMAIN Unwrap(docker_calls) :
          /\ Unwrap(docker_calls)[i].op = "create_image"
          /\ Unwrap(docker_calls)[i].result = None
          /\ docker_calls' = Some(Returns(Unwrap(docker_calls), i, result))
    /\ UNCHANGED <<ctlVars, nameVars, evVars, inspectVars, streamVars,
                   statsVars, containers, run_call>>

RunNext ==
    \/ \E name \in ContainerNames : RunContainer(name)
    \/ CreateContainerOk
    \/ \E error \in {NameConflict, ServerError} : CreateContainerErr(error)
    \/ StartContainerOk
    \/ StartContainerErr
    \/ \E name \in ContainerNames : StopContainer(name)
    \/ \E result \in {Ok("unit"), Err(ServerError), Err(NoSuchContainer),
                      Err(NotModified)} : StopContainerReturns(result)
    \/ PullImage
    \/ \E result \in {Ok("unit"), Err(ServerError)} : PullImageReturns(result)

RunSpec == RunInit /\ [][RunNext]_vars

---------------------------------------------------------------------------
(* container_events (src/drone/agent/docker.rs, lines 132-147): the        *)
(* runtime's event stream, passed through filter_map.                      *)

MaxRawEvents == 3

\* a closure that hands the runtime's error items on to the consumer
EventsClosureSurfacesErrors(item) ==
    IF item.ok THEN from_event_message(item.value) ELSE Some(item)

\* the closure given to filter_map, lines 140-146
EventsClosure(item) ==
    IF item.ok THEN from_event_message(item.value) ELSE None

\* filter_map: an item the closure maps to None is dropped, any other is
\* yielded
FilterMap(delivered, mapped) ==
    IF mapped = None THEN delivered ELSE Append(delivered, Unwrap(mapped))

\* the raw items the model draws from
NamedActor(name) ==
    Some([id |-> Some("c0ffee"),
          attributes |-> Some([k \in {"name"} |-> name])])
StreamEvents ==
    { [action |-> Some("start"), actor |-> NamedActor("web")],
      [action |-> Some("die"), actor |-> NamedActor("db")],
      [action |-> Some("frobnicate"), actor |-> NamedActor("web")],
      [action |-> Some("start"),
       actor |-> Some([id |-> Some("c0ffee"), attributes |-> None])],
      [action |-> None, actor |-> NamedActor("web")] }
StreamErrors == {[kind |-> "JsonDataError", status_code |-> 0], ServerError}
RawItems == {Ok(e) : e \in StreamEvents} \cup {Err(e) : e \in StreamErrors}

StreamInit ==
    /\ raw_events = Some(<<>>)
    /\ delivered_events = Some(<<>>)
    /\ events_ended = FALSE
    /\ CtlParked /\ NameParked /\ EvParked
    /\ InspectParked /\ RunParked /\ StatsParked

\* the runtime's stream yields an item, which goes through the closure
EventsYield(item) ==
    /\ IsSome(raw_events)
    /\ ~events_ended
    /\ Len(Unwrap(raw_events)) < MaxRawEvents
    /\ raw_events' = Some(Append(Unwrap(raw_events), item))
    /\ delivered_events' =
           Some(FilterMap(Unwrap(delivered_events), EventsClosure(item)))
    /\ UNCHANGED <<ctlVars, nameVars, evVars, inspectVars, runVars,
                   statsVars, events_ended>>

\* the runtime's stream ends (the connection to the runtime is lost or
\* closed), and so does the stream made from it
EventsEnd ==
    /\ IsSome(raw_events)
    /\ ~events_ended
    /\ events_ended' = TRUE
    /\ UNCHANGED <<ctlVars, nameVars, evVars, inspectVars, runVars,
                   statsVars, raw_events, delivered_events>>

StreamNext ==
    \/ \E item \in RawItems : EventsYield(item)
    \/ EventsEnd

StreamSpec == StreamInit /\ [][StreamNext]_vars

---------------------------------------------------------------------------
(* get_stats (src/drone/agent/docker.rs, lines 167-180): the runtime's     *)
(* stats stream, passed through throttle.  The throttle sleeps between     *)
(* items: it takes the next item of the stream it wraps only once the      *)
(* interval since the last item it yielded is over, and takes nothing in   *)
(* between.  Time is in whole seconds since get_stats was called.          *)

DEFAULT_DOCKER_THROTTLED_STATS_INTERVAL_SECS == 10
MaxSeconds == 25

\* get_stats is called at second 0; the throttle's first sleep is over at once
StatsInit ==
    /\ stats_now = 0
    /\ stats_pending = Some(<<>>)
    /\ stats_delivered = Some(<<>>)
    /\ throttle_delay = 0
    /\ throttle_has_delayed = TRUE
    /\ CtlParked /\ NameParked /\ EvParked
    /\ InspectParked /\ RunParked /\ StreamParked

\* a second passes and the runtime emits the snapshot of that second on the
\* stats stream (stream: true, lines 171-174)
StatsEmit ==
    /\ IsSome(stats_pending)
    /\ stats_now < MaxSeconds
    /\ stats_now' = stats_now + 1
    /\ stats_pending' = Some(Append(Unwrap(stats_pending), stats_now + 1))
    /\ UNCHANGED <<ctlVars, nameVars, evVars, inspectVars, runVars,
                   streamVars, stats_delivered, throttle_delay,
                   throttle_has_delayed>>

\* the consumer polls the throttled stream (lines 175-179): while the sleep
\* is not over the poll is pending; once it is over the next item of the
\* runtime's stream, if there is one, is yielded and the sleep starts again
ThrottlePollNext ==
    /\ IsSome(stats_pending)
    /\ throttle_has_delayed \/ stats_now >= throttle_delay
    /\ IF Unwrap(stats_pending) = <<>>
       THEN /\ ~throttle_has_delayed
            /\ throttle_has_delayed' = TRUE
            /\ UNCHANGED <<stats_pending, stats_delivered, throttle_delay>>
       ELSE /\ stats_delivered' =
                   Some(Append(Unwrap(stats_delivered),
                               [emitted |-> Head(Unwrap(stats_pending)),
                                at |-> stats_now]))
            /\ stats_pending' = Some(Tail(Unwrap(stats_pending)))
            /\ throttle_delay' =
                   stats_now + DEFAULT_DOCKER_THROTTLED_STATS_INTERVAL_SECS
            /\ throttle_has_delayed' = FALSE
    /\ UNCHANGED <<ctlVars, nameVars, evVars, inspectVars, runVars,
                   streamVars, stats_now>>

StatsNext == StatsEmit \/ ThrottlePollNext

StatsSpec == StatsInit /\ [][StatsNext]_vars

---------------------------------------------------------------------------
(* Claims about the idle pod collector, checked under Spec *)

\* a pass of p has returned to the runtime, by Ok(..) or through error_policy
Returned(p) ==
    /\ pc[p] = "idle"
    /\ pass[p].result \in {"Ok", "ErrorCheckingStatus", "ErrorDeletingPod"}

\* the status query of p's latest pass succeeded with value s
Queried(p) == IsSome(pass[p].read)

Max(a, b) == IF a >= b THEN a ELSE b

\* C1 as stated, on the values whose 32-bit casts are exact (so that what
\* refutes it is the boundary case and not the wrap-around of the casts):
\* a pass whose status query succeeds with seconds_inactive <=
\* cleanup_frequency_seconds computes a non-negative ttl, issues no delete
\* and requeues after exactly ttl seconds.
C1_Original ==
    \A p \in Pods :
        ( /\ Queried(p)
          /\ U32LessEq(Unwrap(pass[p].read), cleanup_frequency_seconds)
          /\ U32FitsI32(cleanup_frequency_seconds) )
        => /\ IsSome(pass[p].seconds_until_expired)
           /\ Unwrap(pass[p].seconds_until_expired) >= 0
           /\ pass[p].deletes = 0
           /\ Returned(p)
              => pass[p].requeue_after =
                     Some(U64(Unwrap(pass[p].seconds_until_expired)))

\* C1 (amended): a pass whose status query succeeds and that computes
\* ttl > 0 issues no delete and requeues after exactly ttl seconds; that is
\* the case whenever seconds_inactive < cleanup_frequency_seconds and both
\* are at most 2^31 - 1, where ttl is their exact difference.  With
\* seconds_inactive = cleanup_frequency_seconds the ttl is 0 and the pass
\* does issue the delete.
C1_PositiveTtlRequeues ==
    \A p \in Pods :
        /\ ( /\ IsSome(pass[p].seconds_until_expired)
             /\ Unwrap(pass[p].seconds_until_expired) > 0 )
           => /\ pass[p].deletes = 0
              /\ Returned(p)
              /\ pass[p].result = "Ok"
              /\ pass[p].requeue_after =
                     Some(U64(Unwrap(pass[p].seconds_until_expired)))
        /\ ( /\ Queried(p)
             /\ U32Less(Unwrap(pass[p].read), cleanup_frequency_seconds)
             /\ U32FitsI32(cleanup_frequency_seconds) )
           => /\ IsSome(pass[p].seconds_until_expired)
              /\ Unwrap(pass[p].seconds_until_expired) > 0
              /\ Unwrap(pass[p].seconds_until_expired) =
                     AsI32(cleanup_frequency_seconds)
                         - AsI32(Unwrap(pass[p].read))
        /\ ( /\ Queried(p)
             /\ Unwrap(pass[p].read) = cleanup_frequency_seconds )
           => /\ pass[p].seconds_until_expired = Some(0)
              /\ pass[p].deletes = 1

\* cleanup 600: one pass read 550 and requeued after 50 seconds without a
\* delete, another read 600 and issued the delete
C1_Witness ==
    /\ cleanup_frequency_seconds = U32(600)
    /\ \E p \in Pods :
        /\ pass[p].read = Some(U32(550))
        /\ pass[p].deletes = 0
        /\ pass[p].requeue_after = Some(U64(50))
    /\ \E q \in Pods :
        /\ pass[q].read = Some(U32(600))
        /\ pass[q].deletes = 1

\* C2: a pass whose status query succeeds with seconds_inactive >
\* cleanup_frequency_seconds computes ttl <= 0 and issues the delete call
\* exactly once.
C2_ExpiredDeletedOnce ==
    \A p \in Pods :
        ( /\ Queried(p)
          /\ U32Less(cleanup_frequency_seconds, Unwrap(pass[p].read)) )
        => /\ IsSome(pass[p].seconds_until_expired)
           /\ Unwrap(pass[p].seconds_until_expired) <= 0
           /\ pass[p].deletes = 1

\* C3: a pass that ends successfully requeues after max(ttl, 0) seconds.
C3_RequeueClamped ==
    \A p \in Pods :
        (Returned(p) /\ pass[p].result = "Ok")
        => pass[p].requeue_after =
               Some(U64(Max(Unwrap(pass[p].seconds_until_expired), 0)))

\* C4: a pass whose status query failed has issued no delete, leaves its pod
\* in the managed set and is re-armed after exactly the 360-second backoff.
C4_StatusFailureBacksOff ==
    \A p \in Pods :
        pass[p].result = "ErrorCheckingStatus"
        => /\ ~Queried(p)
           /\ pass[p].deletes = 0
           /\ p \in managed
           /\ pc[p] = "idle"
           /\ pass[p].requeue_after = Some(U64(360))

\* a workload idle for u32::MAX seconds whose status query failed is still
\* managed, with the 360-second backoff armed
C4_Witness ==
    \E p \in Pods :
        /\ pass[p].result = "ErrorCheckingStatus"
        /\ seconds_inactive[p] = U32Max
        /\ p \in managed
        /\ pass[p].requeue_after = Some(U64(360))

\* C5: a pass whose delete call failed leaves its pod in the managed set,
\* ends in the error path and is re-armed after the 360-second backoff
\* whatever ttl it computed; the runtime can start the next pass, which
\* queries again.
C5_DeleteFailureBacksOff ==
    \A p \in Pods :
        pass[p].result = "ErrorDeletingPod"
        => /\ p \in managed
           /\ pc[p] = "idle"
           /\ pass[p].deletes = 1
           /\ Unwrap(pass[p].seconds_until_expired) <= 0
           /\ pass[p].requeue_after = Some(U64(360))
           /\ running => ENABLED Reconcile(p)

\* a delete that failed at ttl = -10: the pod is still managed and the
\* requeue is 360 seconds, not a function of the ttl
C5_Witness ==
    \E p \in Pods :
        /\ pass[p].result = "ErrorDeletingPod"
        /\ pass[p].seconds_until_expired = Some(-10)
        /\ p \in managed
        /\ pass[p].requeue_after = Some(U64(360))

\* the latest pass of p has ended: it returned to the runtime, or it was
\* aborted by the panic of line 62
Ended(p) == pass[p].result \notin {"NotRun", "Running"}

\* C6: every pass that has ended, whatever its outcome, ended with a requeue
\* delay; so a managed pod is either not yet reconciled, inside a pass, or
\* has a future check pending.
C6_AlwaysRequeues ==
    \A p \in Pods :
        /\ Ended(p) => IsSome(pass[p].requeue_after)
        /\ (p \in managed /\ pc[p] \notin {"get_pod_state", "delete_pod"})
           => (pass[p].result = "NotRun" \/ IsSome(pass[p].requeue_after))

\* p's pass ends in this step by a status or delete failure
FailsNow(p) ==
    /\ pc[p] \in {"get_pod_state", "delete_pod"}
    /\ pc'[p] = "idle"
    /\ pass'[p].result \in {"ErrorCheckingStatus", "ErrorDeletingPod"}

\* C7: a pass that fails leaves the controller running and every other
\* pod's pass, result and membership untouched; while one pod's latest pass
\* is a failure, the runtime can still start a pass for any other idle
\* managed pod and finish the delete of any other pod.
C7_FailureIsolated ==
    [][ \A p \in Pods :
          /\ FailsNow(p)
             => /\ running' = running
                /\ \A q \in Pods \ {p} :
                      /\ pc'[q] = pc[q]
                      /\ pass'[q] = pass[q]
                      /\ (q \in managed') = (q \in managed)
          /\ (running /\ pass[p].result
                  \in {"ErrorCheckingStatus", "ErrorDeletingPod"})
             => \A q \in Pods \ {p} :
                   /\ (q \in managed /\ pc[q] = "idle")
                      => ENABLED Reconcile(q)
                   /\ pc[q] = "delete_pod" => ENABLED DeletePodOk(q)
      ]_vars

\* one pod's latest pass failed at the delete; the controller runs and the
\* other pod, expired, has been deleted
C7_Witness ==
    \E p, q \in Pods :
        /\ p # q
        /\ pass[p].result = "ErrorDeletingPod"
        /\ running
        /\ pass[q].result = "Ok"
        /\ pass[q].deletes = 1
        /\ q \notin managed

---------------------------------------------------------------------------
(* Claims about resource names, checked under NameSpec *)

\* C8: for every workload id, from_resource_name(to_resource_name(id))
\* returns that same id.
C8_RoundTrip ==
    (IsSome(backend_id) /\ IsSome(resource_name) /\ IsSome(parsed))
    => parsed = Some(backend_id)

\* the id "spawner-x", which itself starts with the prefix, has come back
C8_Witness ==
    /\ backend_id = Some(BackendId(RESOURCE_PREFIX \o <<"x">>))
    /\ resource_name = Some(RESOURCE_PREFIX \o RESOURCE_PREFIX \o <<"x">>)
    /\ parsed = Some(backend_id)

\* the name starts with the eight characters "spawner-"
HasSpawnerPrefix(name) ==
    /\ Len(name) >= 8
    /\ name[1] = "s" /\ name[2] = "p" /\ name[3] = "a" /\ name[4] = "w"
    /\ name[5] = "n" /\ name[6] = "e" /\ name[7] = "r" /\ name[8] = "-"

\* C9: from_resource_name returns no match for every name that does not
\* start with "spawner-", returns an id only for names that do start with
\* it, and to_resource_name of that id is the original name.
C9_NoMatchWithoutPrefix ==
    (IsSome(resource_name) /\ IsSome(parsed))
    => /\ ~HasSpawnerPrefix(Unwrap(resource_name)) => Unwrap(parsed) = None
       /\ IsSome(Unwrap(parsed)) => HasSpawnerPrefix(Unwrap(resource_name))
       /\ IsSome(renamed) => renamed = resource_name

\* "not-prefixed" has been parsed, with no match
C9_Witness ==
    /\ resource_name =
           Some(<<"n", "o", "t", "-", "p", "r", "e", "f", "i", "x", "e", "d">>)
    /\ parsed = Some(None)

---------------------------------------------------------------------------
(* Claims about the event classifier, checked under EventSpec *)

\* the raw event lacks an action, an actor, or a name attribute on its actor
LacksField(event) ==
    \/ event.action = None
    \/ event.actor = None
    \/ Unwrap(event.actor).attributes = None
    \/ "name" \notin DOMAIN Unwrap(Unwrap(event.actor).attributes)

\* C10: a raw event that lacks an action, an actor or the actor's name
\* attribute classifies as no event, whatever its other fields; a raw event
\* with action "start", an actor and a name attribute n classifies as kind
\* Start with workload name n.
C10_MissingFieldNoEvent ==
    IsSome(container_event)
    => /\ LacksField(event_message) => Unwrap(container_event) = None
       /\ (~LacksField(event_message) /\ event_message.action = Some("start"))
          => Unwrap(container_event) =
                 Some([event |-> "Start",
                       name |-> Unwrap(Unwrap(event_message.actor)
                                           .attributes)["name"]])

\* a start event whose actor is named "web" has classified as Start of "web"
C10_Witness ==
    /\ event_message.action = Some("start")
    /\ event_message.actor =
           Some([id |-> Some("c0ffee"),
                 attributes |-> Some([k \in {"name", "image"} |->
                                         IF k = "name" THEN "web" ELSE "db"])])
    /\ container_event = Some(Some([event |-> "Start", name |-> "web"]))

\* C11: an action string outside the 24-entry vocabulary ("frobnicate", or
\* "Start" in another case) classifies as no event, never as an event of some
\* default kind; an action string of the vocabulary, on an event with a named
\* actor, classifies as an event whose kind no other vocabulary string maps
\* to.
C11_VocabularyOnly ==
    /\ Cardinality(Vocabulary) = 24
    /\ (IsSome(container_event) /\ IsSome(event_message.action))
       => LET action == Unwrap(event_message.action)
              result == Unwrap(container_event)
          IN  /\ action \notin Vocabulary => result = None
              /\ (action \in Vocabulary /\ ~LacksField(event_message))
                 => /\ IsSome(result)
                    /\ \A other \in Vocabulary \ {action} :
                           ContainerEventType(other) #
                               Some(Unwrap(result).event)

\* an event with a named actor and the action "frobnicate" has classified as
\* no event
C11_Witness ==
    /\ event_message.action = Some("frobnicate")
    /\ ~LacksField(event_message)
    /\ container_event = Some(None)

---------------------------------------------------------------------------
(* Claims about the delete decision of a pass, checked under Spec *)

\* C17: the latest pass of a pod has issued a delete if and only if its
\* status query succeeded and the ttl it computed is <= 0 (a ttl of exactly 0
\* included), it issues at most one, and a pod is gone from the cluster only
\* through the delete of such a pass.
C17_DeleteIffExpired ==
    \A p \in Pods :
        /\ pass[p].deletes \in {0, 1}
        /\ pass[p].deletes = 1
           <=> /\ Queried(p)
               /\ IsSome(pass[p].seconds_until_expired)
               /\ Unwrap(pass[p].seconds_until_expired) <= 0
        /\ p \notin managed => pass[p].deletes = 1

\* a pass that read seconds_inactive = cleanup_frequency_seconds computed
\* ttl 0, issued its delete, and the pod is gone
C17_Witness ==
    \E p \in Pods :
        /\ pass[p].seconds_until_expired = Some(0)
        /\ pass[p].read = Some(cleanup_frequency_seconds)
        /\ pass[p].deletes = 1
        /\ p \notin managed

\* the magnitude of a 32-bit signed value, as an unsigned 32-bit value
Magnitude(n) ==
    IF n = MinI32 THEN [hi |-> Limb \div 2, lo |-> 0]
    ELSE IF n < 0 THEN U32(0 - n) ELSE U32(n)

\* a + b = c over the unsigned 32-bit values, without wrap-around
U32SumIs(a, b, c) ==
    LET lo == a.lo + b.lo
        hi == a.hi + b.hi + lo \div Limb
    IN  /\ hi < Limb
        /\ c = [hi |-> hi, lo |-> lo % Limb]

\* ttl is the mathematical difference cleanup - inactive
IsDifference(ttl, cleanup, inactive) ==
    IF ttl >= 0 THEN U32SumIs(inactive, Magnitude(ttl), cleanup)
    ELSE U32SumIs(cleanup, Magnitude(ttl), inactive)

\* C19: for every pair of unsigned 32-bit values the ttl of a pass is the
\* mathematical signed difference cleanup_frequency_seconds -
\* seconds_inactive, so that every pass that read seconds_inactive >
\* cleanup_frequency_seconds issues the delete, values above 2^31 - 1
\* included.
C19_TtlIsExactDifference ==
    \A p \in Pods :
        Queried(p)
        => /\ IsSome(pass[p].seconds_until_expired)
           /\ IsDifference(Unwrap(pass[p].seconds_until_expired),
                           cleanup_frequency_seconds, Unwrap(pass[p].read))
           /\ U32Less(cleanup_frequency_seconds, Unwrap(pass[p].read))
              => pass[p].deletes = 1

\* C20: the delete a pass decided on is issued whatever the workload reports
\* afterwards: while the delete call of p is pending, a change of p's idle
\* duration leaves the pass where it is, and the delete can complete whatever
\* the current idle duration is; the pass does not query again.
C20_DeleteUsesValueRead ==
    [][ \A p \in Pods :
          /\ ( /\ pc[p] = "delete_pod"
                /\ seconds_inactive'[p] # seconds_inactive[p] )
             => /\ pc'[p] = "delete_pod"
                /\ pass'[p] = pass[p]
                /\ p \in managed'
                /\ running' = running
          /\ (pc[p] = "delete_pod" /\ running) => ENABLED DeletePodOk(p)
      ]_vars

\* a pod has been deleted by a pass that read an expired idle duration while
\* its current idle duration, reset by activity after the query, is below
\* cleanup_frequency_seconds
C20_Witness ==
    \E p \in Pods :
        /\ p \notin managed
        /\ pass[p].result = "Ok"
        /\ pass[p].deletes = 1
        /\ U32LessEq(cleanup_frequency_seconds, Unwrap(pass[p].read))
        /\ seconds_inactive[p] = U32(0)
        /\ U32Less(seconds_inactive[p], cleanup_frequency_seconds)

---------------------------------------------------------------------------
(* Claims about the collector over time, checked under LiveSpec *)

\* C18: a managed workload that stays idle, whose status query keeps
\* answering and whose delete goes through, is eventually deleted under a
\* fair runtime; and when the requeue delay of a pass that computed ttl > 0
\* has elapsed, the workload has been idle for at least
\* cleanup_frequency_seconds, so that the pass run then deletes it.
C18_IdleEventuallyDeleted ==
    /\ \A p \in Pods : <>(p \notin managed)
    /\ [][ \A p \in Pods :
              ( /\ pc[p] = "idle" /\ pc'[p] = "get_pod_state"
                /\ pass[p].result = "Ok"
                /\ Unwrap(pass[p].seconds_until_expired) > 0 )
              => U32LessEq(cleanup_frequency_seconds, seconds_inactive'[p])
          ]_vars

---------------------------------------------------------------------------
(* Claims about container inspection, checked under InspectSpec *)

\* the runtime answered inspect_container with "no such container"
NotFound(response) ==
    /\ ~response.ok
    /\ response.error.kind = "DockerResponseServerError"
    /\ response.error.status_code = 404

\* C12: is_running answers (false, none) without error when the runtime
\* says the container does not exist (404); (true, none) for a running
\* container, even when its state carries an exit code; (false, the recorded
\* exit code) for a stopped container, none when no code is recorded; and an
\* error for every other failure of the runtime.
C12_IsRunningAnswers ==
    IsSome(is_running_ret)
    => LET response == Unwrap(inspect_response)
           ret == Unwrap(is_running_ret)
       IN  /\ NotFound(response) => ret = Ok(<<FALSE, None>>)
           /\ (~response.ok /\ ~NotFound(response)) => ~ret.ok
           /\ (response.ok /\ IsSome(response.value.state))
              => LET state == Unwrap(response.value.state)
                 IN  /\ state.running = Some(TRUE)
                        => ret = Ok(<<TRUE, None>>)
                     /\ state.running = Some(FALSE)
                        => ret = Ok(<<FALSE, state.exit_code>>)

\* a stopped container whose state records exit code 137 has been reported
\* as (false, some(137))
C12_Witness ==
    /\ IsSome(inspect_response)
    /\ Unwrap(inspect_response).ok
    /\ Unwrap(inspect_response).value.state =
           Some([running |-> Some(FALSE), exit_code |-> Some(137)])
    /\ is_running_ret = Some(Ok(<<FALSE, Some(137)>>))

\* the host-port string of the first binding of 8080/tcp, none when the
\* inspection failed or any step on the way to it is absent
FirstHostPort(response) ==
    IF ~response.ok THEN None
    ELSE IF response.value.network_settings = None THEN None
    ELSE LET ports == Unwrap(response.value.network_settings).ports
             key == <<"8", "0", "8", "0", "/", "t", "c", "p">>
         IN  IF ports = None THEN None
             ELSE IF key \notin DOMAIN Unwrap(ports) THEN None
             ELSE IF Unwrap(ports)[key] \in {None, Some(<<>>)} THEN None
             ELSE Unwrap(Unwrap(ports)[key])[1].host_port

AllDigits(s) == s # <<>> /\ \A i \in DOMAIN s : IsDigit(s[i])

RECURSIVE StripZeros(_)
StripZeros(s) ==
    IF Len(s) > 1 /\ Head(s) = "0" THEN StripZeros(Tail(s)) ELSE s

\* a <= b for two digit strings of the same length
RECURSIVE DigitsLeq(_, _)
DigitsLeq(a, b) ==
    IF a = <<>> THEN TRUE
    ELSE IF DigitOf(Head(a)) # DigitOf(Head(b))
         THEN DigitOf(Head(a)) < DigitOf(Head(b))
         ELSE DigitsLeq(Tail(a), Tail(b))

\* the digit string denotes a number of 0..65535
InU16(digits) ==
    LET d == StripZeros(digits)
    IN  \/ Len(d) < 5
        \/ Len(d) = 5 /\ DigitsLeq(d, <<"6", "5", "5", "3", "5">>)

\* C13 as stated, on host-port strings without a leading "+": get_port
\* answers unknown when the inspection fails or the host port of the first
\* binding of 8080/tcp is absent or not numeric, and otherwise answers the
\* number the host-port string of the first binding denotes.
C13_Original ==
    IsSome(get_port_ret)
    => LET host_port == FirstHostPort(Unwrap(inspect_response))
           ret == Unwrap(get_port_ret)
       IN  /\ host_port = None => ret = None
           /\ (IsSome(host_port) /\ ~AllDigits(Unwrap(host_port))
                  /\ (Unwrap(host_port) = <<>>
                         \/ Head(Unwrap(host_port)) # "+"))
              => ret = None
           /\ (IsSome(host_port) /\ AllDigits(Unwrap(host_port)))
              => /\ IsSome(ret)
                 /\ Decimal(Unwrap(ret)) = StripZeros(Unwrap(host_port))

\* C13, amended: get_port answers unknown when the inspection fails, when
\* the host port of the first binding of 8080/tcp is absent, or when its
\* string is not a decimal number of 0..65535 (digits, after an optional
\* "+"); otherwise it answers the number that string denotes.
C13_PortOrUnknown ==
    IsSome(get_port_ret)
    => LET host_port == FirstHostPort(Unwrap(inspect_response))
           ret == Unwrap(get_port_ret)
       IN  IF host_port = None THEN ret = None
           ELSE LET s == Unwrap(host_port)
                    digits == IF s # <<>> /\ Head(s) = "+" THEN Tail(s)
                              ELSE s
                IN  IF AllDigits(digits) /\ InU16(digits)
                    THEN /\ IsSome(ret)
                         /\ Decimal(Unwrap(ret)) = StripZeros(digits)
                    ELSE ret = None

\* a container whose 8080/tcp has two bindings, the first with host port
\* "49153", has been answered with 49153
C13_Witness ==
    /\ IsSome(inspect_response)
    /\ FirstHostPort(Unwrap(inspect_response)) =
           Some(<<"4", "9", "1", "5", "3">>)
    /\ Len(Unwrap(Unwrap(Unwrap(Unwrap(inspect_response).value
                                    .network_settings).ports)
                      [<<"8", "0", "8", "0", "/", "t", "c", "p">>])) = 2
    /\ get_port_ret = Some(Some(49153))

---------------------------------------------------------------------------
(* Claims about run_container, checked under RunSpec *)

\* C16: run_container issues its create call before its start call, and the
\* start call only if the create call succeeded; a call made with a name
\* that is in use gets the name-conflict error from its create call, issues
\* no start call and leaves the runtime's containers as they were.
C16_CreateThenStart ==
    /\ [](IsSome(docker_calls)
           => LET calls == Unwrap(docker_calls)
              IN  \A i \in DOMAIN calls :
                     calls[i].op = "start_container"
                     => \E j \in 1..(i - 1) :
                           /\ calls[j].op = "create_container"
                           /\ calls[j].call = calls[i].call
                           /\ calls[j].name = calls[i].name
                           /\ IsSome(calls[j].result)
                           /\ Unwrap(calls[j].result).ok)
    /\ [][ ( /\ IsSome(run_call)
              /\ Unwrap(run_call).pc = "create_container"
              /\ Unwrap(containers)[Unwrap(run_call).name]
                     \in ExistingStates
              /\ run_call' # run_call )
            => /\ containers' = containers
               /\ Unwrap(run_call').pc = "idle"
               /\ Unwrap(run_call').result = Some(Err(NameConflict))
               /\ Len(Unwrap(docker_calls')) = Len(Unwrap(docker_calls))
          ]_vars

\* a second run_container under the name the first one started has returned
\* the name-conflict error; the calls issued are create, start, create, and
\* the container of the first call is still running
C16_Witness ==
    /\ IsSome(run_call)
    /\ Unwrap(run_call).n = 2
    /\ Unwrap(run_call).pc = "idle"
    /\ Unwrap(run_call).result = Some(Err(NameConflict))
    /\ Len(Unwrap(docker_calls)) = 3
    /\ Unwrap(docker_calls)[2].op = "start_container"
    /\ Unwrap(docker_calls)[2].name = Unwrap(run_call).name
    /\ Unwrap(docker_calls)[2].result = Some(Ok("unit"))
    /\ Unwrap(containers)[Unwrap(run_call).name] = "running"

---------------------------------------------------------------------------
(* Claims about the container_events stream, checked under StreamSpec *)

\* the raw item is an event that has an action of the vocabulary, an actor
\* and the actor's name attribute
Classifiable(item) ==
    /\ item.ok
    /\ ~LacksField(item.value)
    /\ Unwrap(item.value.action) \in Vocabulary

\* the classifiable items of a raw sequence, classified, in their order
RECURSIVE ClassifiedOf(_)
ClassifiedOf(raw) ==
    IF raw = <<>> THEN <<>>
    ELSE LET rest == ClassifiedOf(SubSeq(raw, 1, Len(raw) - 1))
             last == raw[Len(raw)]
         IN  IF Classifiable(last)
             THEN Append(rest, Unwrap(from_event_message(last.value)))
             ELSE rest

\* C14: the sequence the event stream has delivered is exactly the
\* classifiable raw events, classified, in their original order; a raw item
\* that is malformed, unclassifiable or an error is never delivered and
\* never ends the stream, which ends only when the runtime's stream does.
C14_SkipsBadEvents ==
    /\ [](IsSome(raw_events)
           => /\ Unwrap(delivered_events) = ClassifiedOf(Unwrap(raw_events))
              /\ \A i \in DOMAIN Unwrap(delivered_events) :
                     DOMAIN Unwrap(delivered_events)[i] = {"event", "name"})
    /\ [][ events_ended' # events_ended
            => /\ raw_events' = raw_events
               /\ delivered_events' = delivered_events ]_vars

\* after a start event, an error item and an unknown action, a die event
\* would still be delivered: here the stream is open after three raw items
\* of which only the first, a start of "web", was delivered
C14_Witness ==
    /\ IsSome(raw_events)
    /\ ~events_ended
    /\ Len(Unwrap(raw_events)) = 3
    /\ Unwrap(raw_events)[1] =
           Ok([action |-> Some("start"), actor |-> NamedActor("web")])
    /\ ~Unwrap(raw_events)[2].ok
    /\ Unwrap(raw_events)[3] =
           Ok([action |-> Some("frobnicate"), actor |-> NamedActor("web")])
    /\ delivered_events = Some(<<[event |-> "Start", name |-> "web"]>>)

---------------------------------------------------------------------------
(* Claims about the get_stats stream, checked under StatsSpec *)

\* C15: the stats stream delivers at most one snapshot per 10-second
\* interval, so that of the snapshots emitted at seconds 1..25 at most 3 are
\* delivered in that window and never all 25; and the snapshots emitted
\* between two throttle ticks are discarded, not queued: a snapshot that is
\* delivered was emitted after the delivery before it.
C15_ThrottleDiscards ==
    IsSome(stats_delivered)
    => LET delivered == Unwrap(stats_delivered)
       IN  /\ \A i \in DOMAIN delivered :
                  i > 1 => delivered[i].at >= delivered[i - 1].at + 10
           /\ stats_now <= 25 => Len(delivered) <= 3
           /\ \A i \in DOMAIN delivered :
                  i > 1 => delivered[i].emitted > delivered[i - 1].at

=============================================================================
